---- MODULE Spec2Model ----
(***************************************************************************)
(* Model of the Alexandria Outpost supervisor (src/commands/outpost.ts)    *)
(* and of the local API gateway (src/api).                                 *)
(*                                                                         *)
(* The supervisor part models the three CLI invocations serve, status and  *)
(* kill as independent operating-system processes that share the pid file  *)
(* and the config file.  Every file-system call and every signal is one    *)
(* step, so that invocations and the environment (a child exiting, a file  *)
(* damaged by a truncated write) interleave between the calls.             *)
(***************************************************************************)
EXTENDS Integers, Sequences, FiniteSets

(***************************************************************************)
(* Bounds of the model.                                                    *)
(***************************************************************************)
MaxSpawn == 2        \* UI server processes spawned in one behaviour

Slots == {1, 2}      \* invocations that may be alive at the same time
Pids == 1..MaxSpawn    \* process ids handed out by spawn, never reused

(***************************************************************************)
(* Program constants.                                                      *)
(***************************************************************************)
DefaultPort == 3003
DefaultApiUrl == "https://git-gallery.com"
KillWaitMs == 1000
NaN == -1            \* parseInt of a text with no leading digit
Null == -2           \* exit code of a child that was ended by a signal
X == 10              \* a character that is not a decimal digit

VARIABLES
  pidFile,     \* ~/.alexandria/outpost.pid: [exists, text]
  cfgFile,     \* ~/.alexandria/outpost.config.json: [exists, json, port, apiUrl, startedAt]
  procs,       \* spawned UI server processes: pid -> unborn, alive or dead
  nextPid,     \* the process id the next spawn returns
  clock,       \* wall clock, ticks when it is read
  inv,         \* the CLI invocations, one record per slot
  script,      \* observer: progress through serve -d, status, kill, status
  manager,     \* which AlexandriaOutpostManager the gateway was built with
  registry,    \* the project registry: name -> root path, <<>> when not registered
  nodeEnv,     \* process.env.NODE_ENV of the gateway's process
  req,         \* the last request to the gateway
  res,         \* the response it was given
  hook,        \* the file .husky/pre-commit
  hookLog      \* which of hooks --add, hooks --remove have run, and on what file

sup == <<pidFile, cfgFile, procs, nextPid, clock, inv, script>>
gw == <<manager, registry, nodeEnv, req, res, hook, hookLog>>

(***************************************************************************)
(* Texts.  A text is a sequence of characters; a character is a decimal    *)
(* digit 0..9 or X.                                                        *)
(***************************************************************************)
RECURSIVE NumToString(_)
\* pid.toString(): the decimal digits of n
NumToString(n) ==
  IF n < 10 THEN <<n>> ELSE Append(NumToString(n \div 10), n % 10)

RECURSIVE ParseDigits(_, _)
ParseDigits(s, acc) ==
  IF s = <<>> \/ Head(s) > 9 THEN acc
  ELSE ParseDigits(Tail(s), 10 * acc + Head(s))

\* parseInt(text.trim()): the leading decimal digits, NaN when there are none
ParseInt(s) ==
  IF s = <<>> \/ Head(s) > 9 THEN NaN ELSE ParseDigits(s, 0)

(***************************************************************************)
(* Files.                                                                  *)
(***************************************************************************)
NoPidFile == [exists |-> FALSE, text |-> <<>>]
PidText(t) == [exists |-> TRUE, text |-> t]

\* the field by is not part of the file: it names the child of the serve
\* invocation that wrote it
NoCfgFile == [exists |-> FALSE, json |-> FALSE, port |-> 0, apiUrl |-> "", startedAt |-> 0,
              by |-> 0]
BadCfgFile == [exists |-> TRUE, json |-> FALSE, port |-> 0, apiUrl |-> "", startedAt |-> 0,
               by |-> 0]
CfgJson(port, apiUrl, startedAt) ==
  [exists |-> TRUE, json |-> TRUE, port |-> port, apiUrl |-> apiUrl, startedAt |-> startedAt,
   by |-> 0]

\* what a reader finds in the config file
CfgKind(c) == IF ~c.exists THEN "absent" ELSE IF c.json THEN "json" ELSE "bad"

GarbageTexts == {<<X>>}

(***************************************************************************)
(* Processes.                                                              *)
(***************************************************************************)
ChildCodes == {0, 1, 2}

\* process.kill(pid, sig) succeeds iff pid is an integer naming a live process
Alive(pid) == pid \in Pids /\ procs[pid] = "alive"

\* SIGKILL ends the target at once; the target answers any other signal in
\* its own time (ProcExit), or never
Signal(ps, pid, sig) ==
  IF sig = "SIGKILL" THEN [ps EXCEPT ![pid] = "dead"] ELSE ps

\* child.kill(sig): no effect, and no exception, on a child that has exited
ChildKill(ps, pid, sig) == IF ps[pid] = "alive" THEN Signal(ps, pid, sig) ELSE ps

(***************************************************************************)
(* Invocations.                                                            *)
(***************************************************************************)
NoServer == [defined |-> FALSE, handle |-> FALSE, closed |-> FALSE, cbs |-> <<>>]

Fresh(cmd, detached, local) ==
  [cmd |-> cmd, detached |-> detached, local |-> local, pc |-> "p_exists",
   pid |-> 0, running |-> FALSE, hasCfg |-> FALSE, probeOk |-> FALSE, stale |-> FALSE,
   child |-> 0, childExited |-> FALSE, childCode |-> Null, apiUrl |-> DefaultApiUrl, apiServer |-> NoServer,
   handlers |-> {}, stops |-> 0,
   code |-> 0, crashed |-> FALSE, report |-> "none",
   writes |-> 0, unlinks |-> 0, sent |-> {}, timer |-> 0, reprobe |-> "none",
   startedAt |-> 0, startPid |-> FALSE, startCfg |-> "absent", afterPartial |-> FALSE,
   endPid |-> NoPidFile, endCfg |-> NoCfgFile]

Idle == [Fresh("none", FALSE, FALSE) EXCEPT !.pc = "idle"]

\* process.exit(code), or the event loop running empty (code 0)
Exit(r, code) == [r EXCEPT !.pc = "done", !.code = code]

\* an exception nothing catches ends the process with code 1
Crash(r) == [r EXCEPT !.pc = "done", !.code = 1, !.crashed = TRUE]

Ended(r) == r.pc \in {"done", "hosting"}
Free(r) == r.pc \in {"idle", "done"}

(***************************************************************************)
(* Observer of completed invocations: how far the last completed           *)
(* invocations match serve --detached, status, kill, status.               *)
(***************************************************************************)
Kind(r) ==
  IF r.cmd = "serve" THEN (IF r.detached THEN "serveD" ELSE "serveF") ELSE r.cmd

Expected(pos) ==
  CASE pos = 1 -> "status" [] pos = 2 -> "kill" [] pos = 3 -> "status" [] OTHER -> "serveD"

NoScript == [pos |-> 0, launched |-> FALSE, term |-> FALSE, forced |-> FALSE,
             report |-> "none", clean |-> FALSE, heal |-> 0, healed |-> FALSE,
             partial |-> FALSE]

\* the status invocations in a row since one found the recorded process dead
Heal(s, r) ==
  LET ok == r.report = "stopped" /\ ~r.endPid.exists /\ ~r.endCfg.exists IN
  IF r.cmd = "status" /\ r.stale THEN [heal |-> 1, healed |-> ok]
  ELSE IF r.cmd = "status" /\ s.heal = 1 THEN [heal |-> 2, healed |-> s.healed /\ ok]
  ELSE [heal |-> 0, healed |-> FALSE]

\* the invocation that ended last was a serve that wrote the pid file and
\* failed on the config file
Partial(r) == r.cmd = "serve" /\ r.pc = "done" /\ r.writes = 1

Observe(s, r) == [s EXCEPT !.heal = Heal(script, r).heal, !.healed = Heal(script, r).healed,
                           !.partial = Partial(r)]

Advance(s, r) ==
  LET p == IF s.pos = 4 THEN 0 ELSE s.pos IN
  IF Kind(r) = Expected(p)
  THEN CASE p = 0 -> [NoScript EXCEPT !.pos = 1, !.launched = (r.child # 0 /\ r.code = 0)]
         [] p = 2 -> [s EXCEPT !.pos = 3, !.term = ("SIGTERM" \in r.sent),
                               !.forced = ("SIGKILL" \in r.sent)]
         [] p = 3 -> [s EXCEPT !.pos = 4, !.report = r.report,
                               !.clean = (~r.endPid.exists /\ ~r.endCfg.exists)]
         [] OTHER -> [s EXCEPT !.pos = p + 1]
  ELSE IF Kind(r) = "serveD"
       THEN [NoScript EXCEPT !.pos = 1, !.launched = (r.child # 0 /\ r.code = 0)]
       ELSE NoScript

\* slot i takes the record r; an invocation that ends is stamped with the
\* files it leaves behind and is shown to the observer
Commit(i, r) ==
  LET ends == Ended(r) /\ ~Ended(inv[i])
      e == IF ends THEN [r EXCEPT !.endPid = pidFile', !.endCfg = cfgFile'] ELSE r
  IN /\ inv' = [inv EXCEPT ![i] = e]
     /\ script' = IF ends THEN Observe(Advance(script, e), e) ELSE script
     /\ UNCHANGED gw

(***************************************************************************)
(* isOutpostRunning, one step per system call.                             *)
(***************************************************************************)
\* Faulty variant, for comparison: serve goes on to launch although a server is running
ReturnServeIgnoresRunning(r, running) ==
  LET s == [r EXCEPT !.running = running] IN
  CASE r.cmd = "status" ->
         Exit([s EXCEPT !.report = IF running THEN "running" ELSE "stopped"], 0)
    [] r.cmd = "kill" ->
         IF running THEN [s EXCEPT !.pc = "k_term"]
         ELSE Exit([s EXCEPT !.report = "stopped"], 0)
    [] OTHER -> [s EXCEPT !.pc = IF r.local THEN "s_listen" ELSE "s_spawn"]

\* what the command does with the answer of isOutpostRunning, up to its
\* next system call
Return(r, running) ==
  LET s == [r EXCEPT !.running = running] IN
  CASE r.cmd = "status" ->
         Exit([s EXCEPT !.report = IF running THEN "running" ELSE "stopped"], 0)
    [] r.cmd = "kill" ->
         IF running THEN [s EXCEPT !.pc = "k_term"]
         ELSE Exit([s EXCEPT !.report = "stopped"], 0)
    [] OTHER ->
         IF running THEN Exit([s EXCEPT !.report = "already"], 1)
         ELSE [s EXCEPT !.pc = IF r.local THEN "s_listen" ELSE "s_spawn"]

\* Faulty variant, for comparison: the pid file is read without asking whether it exists
ProbeWithoutExistsCheck(i) ==
  /\ inv[i].pc = "p_exists"
  /\ UNCHANGED <<pidFile, cfgFile, procs, nextPid, clock>>
  /\ Commit(i, [inv[i] EXCEPT !.pc = "p_read"])

\* existsSync(PID_FILE)
ProbeExistsPid(i) ==
  /\ inv[i].pc = "p_exists"
  /\ UNCHANGED <<pidFile, cfgFile, procs, nextPid, clock>>
  /\ Commit(i, IF pidFile.exists THEN [inv[i] EXCEPT !.pc = "p_read"]
               ELSE Return(inv[i], FALSE))

\* parseInt(readFileSync(PID_FILE).trim()); a missing file throws into the catch
ProbeReadPid(i) ==
  /\ inv[i].pc = "p_read"
  /\ UNCHANGED <<pidFile, cfgFile, procs, nextPid, clock>>
  /\ Commit(i, IF pidFile.exists
               THEN [inv[i] EXCEPT !.pc = "p_kill0", !.pid = ParseInt(pidFile.text)]
               ELSE [inv[i] EXCEPT !.pc = "c_unlinkPid"])

\* Faulty variant, for comparison: the recorded pid is taken to be alive
ProbeKill0Trusting(i) ==
  /\ inv[i].pc = "p_kill0"
  /\ UNCHANGED <<pidFile, cfgFile, procs, nextPid, clock>>
  /\ Commit(i, [inv[i] EXCEPT !.pc = "p_cfgExists"])

\* process.kill(pid, 0)
ProbeKill0(i) ==
  /\ inv[i].pc = "p_kill0"
  /\ UNCHANGED <<pidFile, cfgFile, procs, nextPid, clock>>
  /\ Commit(i, IF Alive(inv[i].pid)
               THEN [inv[i] EXCEPT !.pc = "p_cfgExists", !.probeOk = TRUE]
               ELSE [inv[i] EXCEPT !.pc = "c_unlinkPid",
                                   !.stale = (inv[i].pid \in Pids)])

\* Faulty variant, for comparison: a live process is not enough, the descriptor is purged
ProbeCfgDistrusted(i) ==
  /\ inv[i].pc = "p_cfgExists"
  /\ UNCHANGED <<pidFile, cfgFile, procs, nextPid, clock>>
  /\ Commit(i, [inv[i] EXCEPT !.pc = "c_unlinkPid"])

\* existsSync(CONFIG_FILE)
ProbeExistsCfg(i) ==
  /\ inv[i].pc = "p_cfgExists"
  /\ UNCHANGED <<pidFile, cfgFile, procs, nextPid, clock>>
  /\ Commit(i, IF cfgFile.exists THEN [inv[i] EXCEPT !.pc = "p_cfgRead"]
               ELSE Return(inv[i], TRUE))

\* Faulty variant, for comparison: a config that does not parse is passed over
ProbeReadCfgLenient(i) ==
  /\ inv[i].pc = "p_cfgRead"
  /\ UNCHANGED <<pidFile, cfgFile, procs, nextPid, clock>>
  /\ Commit(i, Return([inv[i] EXCEPT !.hasCfg = cfgFile.exists /\ cfgFile.json], TRUE))

\* JSON.parse(readFileSync(CONFIG_FILE))
ProbeReadCfg(i) ==
  /\ inv[i].pc = "p_cfgRead"
  /\ UNCHANGED <<pidFile, cfgFile, procs, nextPid, clock>>
  /\ Commit(i, IF cfgFile.exists /\ cfgFile.json
               THEN Return([inv[i] EXCEPT !.hasCfg = TRUE], TRUE)
               ELSE [inv[i] EXCEPT !.pc = "c_unlinkPid"])

\* catch: unlinkSync(PID_FILE); a missing file throws out of the catch
StaleUnlinkPid(i) ==
  /\ inv[i].pc = "c_unlinkPid"
  /\ pidFile' = NoPidFile
  /\ UNCHANGED <<cfgFile, procs, nextPid, clock>>
  /\ Commit(i, IF pidFile.exists
               THEN [inv[i] EXCEPT !.pc = "c_cfgExists", !.unlinks = @ + 1]
               ELSE Crash(inv[i]))

\* Faulty variant, for comparison: the stale cleanup forgets the config file
StaleKeepsCfg(i) ==
  /\ inv[i].pc = "c_cfgExists"
  /\ UNCHANGED <<pidFile, cfgFile, procs, nextPid, clock>>
  /\ Commit(i, Return(inv[i], FALSE))

\* catch: existsSync(CONFIG_FILE)
StaleExistsCfg(i) ==
  /\ inv[i].pc = "c_cfgExists"
  /\ UNCHANGED <<pidFile, cfgFile, procs, nextPid, clock>>
  /\ Commit(i, IF cfgFile.exists THEN [inv[i] EXCEPT !.pc = "c_unlinkCfg"]
               ELSE Return(inv[i], FALSE))

\* catch: unlinkSync(CONFIG_FILE)
StaleUnlinkCfg(i) ==
  /\ inv[i].pc = "c_unlinkCfg"
  /\ cfgFile' = NoCfgFile
  /\ UNCHANGED <<pidFile, procs, nextPid, clock>>
  /\ Commit(i, IF cfgFile.exists
               THEN Return([inv[i] EXCEPT !.unlinks = @ + 1], FALSE)
               ELSE Crash(inv[i]))

(***************************************************************************)
(* kill.                                                                   *)
(***************************************************************************)
\* Faulty variant, for comparison: SIGTERM is sent outside the try block
KillTermUncaught(i) ==
  /\ inv[i].pc = "k_term"
  /\ procs' = IF Alive(inv[i].pid) THEN Signal(procs, inv[i].pid, "SIGTERM") ELSE procs
  /\ UNCHANGED <<pidFile, cfgFile, nextPid, clock>>
  /\ Commit(i, IF Alive(inv[i].pid)
               THEN [inv[i] EXCEPT !.pc = "k_wait", !.sent = @ \cup {"SIGTERM"},
                                   !.timer = KillWaitMs]
               ELSE Crash(inv[i]))

\* Faulty variant, for comparison: SIGKILL follows SIGTERM at once
KillTermThenKill(i) ==
  /\ inv[i].pc = "k_term"
  /\ procs' = IF Alive(inv[i].pid) THEN Signal(procs, inv[i].pid, "SIGKILL") ELSE procs
  /\ UNCHANGED <<pidFile, cfgFile, nextPid, clock>>
  /\ Commit(i, IF Alive(inv[i].pid)
               THEN [inv[i] EXCEPT !.pc = "cl_existsPid",
                                   !.sent = @ \cup {"SIGTERM", "SIGKILL"}]
               ELSE [inv[i] EXCEPT !.pc = "cl_existsPid", !.report = "failed"])

\* process.kill(status.pid, 'SIGTERM'), then setTimeout(..., KillWaitMs); a
\* process that is gone throws into the outer catch, which cleans up
KillTerm(i) ==
  /\ inv[i].pc = "k_term"
  /\ procs' = IF Alive(inv[i].pid) THEN Signal(procs, inv[i].pid, "SIGTERM") ELSE procs
  /\ UNCHANGED <<pidFile, cfgFile, nextPid, clock>>
  /\ Commit(i, IF Alive(inv[i].pid)
               THEN [inv[i] EXCEPT !.pc = "k_wait", !.sent = @ \cup {"SIGTERM"},
                                   !.timer = KillWaitMs]
               ELSE [inv[i] EXCEPT !.pc = "cl_existsPid", !.report = "failed"])

\* Faulty variant, for comparison: kill sends SIGTERM and returns, without the delayed check
KillTimerGivesUp(i) ==
  /\ inv[i].pc = "k_wait"
  /\ UNCHANGED <<pidFile, cfgFile, procs, nextPid, clock>>
  /\ Commit(i, Exit([inv[i] EXCEPT !.report = "stopped successfully"], 0))

\* the timer fires after KillWaitMs: process.kill(status.pid, 0)
KillTimer(i) ==
  /\ inv[i].pc = "k_wait"
  /\ UNCHANGED <<pidFile, cfgFile, procs, nextPid, clock>>
  /\ Commit(i, IF Alive(inv[i].pid)
               THEN [inv[i] EXCEPT !.pc = "k_force", !.report = "stopped successfully",
                                   !.reprobe = "alive"]
               ELSE [inv[i] EXCEPT !.pc = "cl_existsPid", !.report = "stopped successfully",
                                   !.reprobe = "gone"])

\* process.kill(status.pid, 'SIGKILL'); a process gone by now is caught
KillForce(i) ==
  /\ inv[i].pc = "k_force"
  /\ procs' = IF Alive(inv[i].pid) THEN Signal(procs, inv[i].pid, "SIGKILL") ELSE procs
  /\ UNCHANGED <<pidFile, cfgFile, nextPid, clock>>
  /\ Commit(i, IF Alive(inv[i].pid)
               THEN [inv[i] EXCEPT !.pc = "cl_existsPid", !.sent = @ \cup {"SIGKILL"}]
               ELSE [inv[i] EXCEPT !.pc = "cl_existsPid"])

\* cleanupServerInfo: existsSync(PID_FILE)
CleanupExistsPid(i) ==
  /\ inv[i].pc = "cl_existsPid"
  /\ UNCHANGED <<pidFile, cfgFile, procs, nextPid, clock>>
  /\ Commit(i, [inv[i] EXCEPT !.pc = IF pidFile.exists THEN "cl_unlinkPid"
                                     ELSE "cl_existsCfg"])

\* cleanupServerInfo: unlinkSync(PID_FILE)
CleanupUnlinkPid(i) ==
  /\ inv[i].pc = "cl_unlinkPid"
  /\ pidFile' = NoPidFile
  /\ UNCHANGED <<cfgFile, procs, nextPid, clock>>
  /\ Commit(i, IF pidFile.exists
               THEN [inv[i] EXCEPT !.pc = "cl_existsCfg", !.unlinks = @ + 1]
               ELSE Crash(inv[i]))

\* cleanupServerInfo: existsSync(CONFIG_FILE); the command ends after it
CleanupExistsCfg(i) ==
  /\ inv[i].pc = "cl_existsCfg"
  /\ UNCHANGED <<pidFile, cfgFile, procs, nextPid, clock>>
  /\ Commit(i, IF cfgFile.exists THEN [inv[i] EXCEPT !.pc = "cl_unlinkCfg"]
               ELSE Exit(inv[i], 0))

\* cleanupServerInfo: unlinkSync(CONFIG_FILE)
CleanupUnlinkCfg(i) ==
  /\ inv[i].pc = "cl_unlinkCfg"
  /\ cfgFile' = NoCfgFile
  /\ UNCHANGED <<pidFile, procs, nextPid, clock>>
  /\ Commit(i, IF cfgFile.exists
               THEN Exit([inv[i] EXCEPT !.unlinks = @ + 1], 0)
               ELSE Crash(inv[i]))

(***************************************************************************)
(* The gateway of a serve --local invocation (LocalAPIServer).             *)
(***************************************************************************)
LocalApiUrl == "http://localhost:3002"

\* LocalAPIServer.start: this.server = app.listen(port)
ServerStart(srv) == [defined |-> TRUE, handle |-> TRUE, closed |-> FALSE, cbs |-> <<>>]

\* LocalAPIServer.stop for handler h: this.server.close(cb).  close releases
\* the listening handle; on a server whose handle is gone already the
\* callback gets ERR_SERVER_NOT_RUNNING and the promise rejects
ServerStop(srv, h) ==
  IF srv.defined
  THEN [srv EXCEPT !.handle = FALSE,
                   !.cbs = Append(@, [h |-> h, err |-> ~srv.handle])]
  ELSE srv

\* code || 0
OrZero(code) == IF code = Null \/ code = 0 THEN 0 ELSE code

\* the continuations of the handlers waiting in stop(), run in the order of
\* their callbacks; process.exit in the exit handler ends the run
RECURSIVE RunCallbacks(_, _)
RunCallbacks(cbs, st) ==
  IF cbs = <<>> \/ st.exited THEN st
  ELSE LET cb == Head(cbs) IN
       RunCallbacks(Tail(cbs),
         IF cb.err THEN [st EXCEPT !.rejected = @ \cup {cb.h}]
         ELSE IF cb.h = "exit" THEN [st EXCEPT !.exited = TRUE]
         ELSE IF cb.h = "none" THEN st
         ELSE [st EXCEPT !.kills = Append(@, cb.h)])

RECURSIVE ChildKillAll(_, _, _)
ChildKillAll(ps, pid, sigs) ==
  IF sigs = <<>> THEN ps
  ELSE ChildKillAll(ChildKill(ps, pid, Head(sigs)), pid, Tail(sigs))

SeqToSet(q) == {q[k] : k \in 1..Len(q)}

(***************************************************************************)
(* serve.                                                                  *)
(***************************************************************************)
\* await apiServer.start(); a port in use is an 'error' event nobody handles
ServeListen(i) ==
  /\ inv[i].pc = "s_listen"
  /\ UNCHANGED <<pidFile, cfgFile, procs, nextPid, clock>>
  /\ \E ok \in BOOLEAN :
       Commit(i, IF ok
                 THEN [inv[i] EXCEPT !.pc = "s_spawn", !.apiUrl = LocalApiUrl,
                                     !.apiServer = ServerStart(@)]
                 ELSE Crash([inv[i] EXCEPT !.report = "gateway"]))

\* Faulty variant, for comparison: the descriptor is written without looking at child.pid
ServeSpawnUnchecked(i) ==
  /\ inv[i].pc = "s_spawn"
  /\ nextPid \in Pids
  /\ UNCHANGED <<pidFile, cfgFile, procs, nextPid, clock>>
  /\ Commit(i, [inv[i] EXCEPT !.report = "nopid",
                  !.pc = IF inv[i].detached THEN "s_writePid" ELSE "fg"])

\* getOutpostExecutablePath() and spawn('node', args)
ServeSpawn(i) ==
  /\ inv[i].pc = "s_spawn"
  /\ nextPid \in Pids
  /\ UNCHANGED <<pidFile, cfgFile>>
  /\ \E out \in {"ok", "noexe", "nopid"} :
       IF out = "ok"
       THEN /\ procs' = [procs EXCEPT ![nextPid] = "alive"]
            /\ nextPid' = nextPid + 1
            /\ clock' = IF inv[i].detached THEN clock + 1 ELSE clock
            /\ Commit(i, [inv[i] EXCEPT !.child = nextPid,
                            !.startedAt = IF inv[i].detached THEN clock + 1 ELSE 0,
                            !.pc = IF inv[i].detached THEN "s_writePid" ELSE "fg"])
       ELSE /\ UNCHANGED <<procs, nextPid, clock>>
            /\ Commit(i, IF out = "nopid" /\ ~inv[i].detached
                         THEN Crash([inv[i] EXCEPT !.report = out])
                         ELSE Exit([inv[i] EXCEPT !.report = out], 1))

\* saveServerInfo: writeFileSync(PID_FILE, pid.toString())
ServeWritePid(i) ==
  /\ inv[i].pc = "s_writePid"
  /\ UNCHANGED <<cfgFile, procs, nextPid, clock>>
  /\ \E ok \in BOOLEAN :
       /\ pidFile' = IF ok THEN PidText(NumToString(inv[i].child)) ELSE pidFile
       /\ Commit(i, IF ok THEN [inv[i] EXCEPT !.pc = "s_writeCfg", !.writes = @ + 1]
                    ELSE Exit(inv[i], 1))

\* saveServerInfo: writeFileSync(CONFIG_FILE, JSON.stringify(config)); the
\* action returns, and the process ends once nothing keeps the event loop alive
ServeWriteCfg(i) ==
  /\ inv[i].pc = "s_writeCfg"
  /\ UNCHANGED <<pidFile, procs, nextPid, clock>>
  /\ \E ok \in BOOLEAN :
       /\ cfgFile' = IF ok THEN [CfgJson(DefaultPort, inv[i].apiUrl, inv[i].startedAt)
                                   EXCEPT !.by = inv[i].child]
                     ELSE cfgFile
       /\ Commit(i, IF ~ok THEN Exit(inv[i], 1)
                    ELSE IF inv[i].apiServer.handle
                         THEN [inv[i] EXCEPT !.pc = "hosting", !.writes = @ + 1,
                                             !.report = "started"]
                         ELSE Exit([inv[i] EXCEPT !.writes = @ + 1,
                                                  !.report = "started"], 0))

\* child.on('exit'): stop the gateway, then process.exit(code || 0)
OnChildExit(i) ==
  /\ inv[i].pc = "fg"
  /\ inv[i].childExited
  /\ "exit" \notin inv[i].handlers
  /\ UNCHANGED <<pidFile, cfgFile, procs, nextPid, clock>>
  /\ Commit(i, IF inv[i].apiServer.defined
               THEN [inv[i] EXCEPT !.handlers = @ \cup {"exit"}, !.stops = @ + 1,
                                   !.apiServer = ServerStop(@, "exit")]
               ELSE Exit([inv[i] EXCEPT !.handlers = @ \cup {"exit"}],
                         OrZero(inv[i].childCode)))

\* Faulty variant, for comparison: the signal is forwarded without awaiting the stop
OnSignalNoAwait(i, sig) ==
  /\ inv[i].pc = "fg"
  /\ sig \notin inv[i].handlers
  /\ UNCHANGED <<pidFile, cfgFile, nextPid, clock>>
  /\ procs' = ChildKill(procs, inv[i].child, sig)
  /\ Commit(i, [inv[i] EXCEPT !.handlers = @ \cup {sig}, !.sent = @ \cup {sig},
                              !.stops = IF inv[i].apiServer.defined THEN @ + 1 ELSE @,
                              !.apiServer = ServerStop(@, "none")])

\* process.on(sig): stop the gateway, then child.kill(sig)
OnSignal(i, sig) ==
  /\ inv[i].pc = "fg"
  /\ sig \notin inv[i].handlers
  /\ UNCHANGED <<pidFile, cfgFile, nextPid, clock>>
  /\ IF inv[i].apiServer.defined
     THEN /\ UNCHANGED procs
          /\ Commit(i, [inv[i] EXCEPT !.handlers = @ \cup {sig}, !.stops = @ + 1,
                                      !.apiServer = ServerStop(@, sig)])
     ELSE /\ procs' = ChildKill(procs, inv[i].child, sig)
          /\ Commit(i, [inv[i] EXCEPT !.handlers = @ \cup {sig}, !.sent = @ \cup {sig}])

\* the server's 'close' event: every pending close callback runs, then the
\* continuations of the awaiting handlers.  A rejected handler is an
\* unhandled rejection: it ends the process with code 1, or is only warned
\* about, as the runtime decides
ServerClosed(i) ==
  /\ inv[i].pc = "fg"
  /\ ~inv[i].apiServer.handle
  /\ inv[i].apiServer.cbs # <<>>
  /\ UNCHANGED <<pidFile, cfgFile, nextPid, clock>>
  /\ LET st == RunCallbacks(inv[i].apiServer.cbs,
                            [exited |-> FALSE, kills |-> <<>>, rejected |-> {}])
         r == [inv[i] EXCEPT !.apiServer.cbs = <<>>, !.apiServer.closed = TRUE,
                             !.sent = @ \cup SeqToSet(st.kills)]
     IN /\ procs' = ChildKillAll(procs, inv[i].child, st.kills)
        /\ \E fatal \in BOOLEAN :
             Commit(i, IF st.exited THEN Exit(r, OrZero(inv[i].childCode))
                       ELSE IF st.rejected = {} THEN r
                       ELSE IF fatal THEN Crash(r)
                       ELSE IF "exit" \in st.rejected THEN Exit(r, 0)
                       ELSE r)

(***************************************************************************)
(* The environment.                                                        *)
(***************************************************************************)
\* a UI server process ends, by itself or on a signal it received; the
\* foreground invocation that spawned it is sent 'exit' with the code
ProcExit(p, code) ==
  LET W == {i \in Slots : inv[i].pc = "fg" /\ inv[i].child = p} IN
  /\ procs[p] = "alive"
  /\ W = {} => code = 0
  /\ procs' = [procs EXCEPT ![p] = "dead"]
  /\ inv' = [i \in Slots |->
              IF i \in W THEN [inv[i] EXCEPT !.childExited = TRUE, !.childCode = code]
              ELSE inv[i]]
  /\ UNCHANGED <<pidFile, cfgFile, nextPid, clock, script>>
  /\ UNCHANGED gw

\* no invocation is under way
Quiet == \A j \in DOMAIN inv : Free(inv[j]) \/ Ended(inv[j])

\* the pid file is damaged between two invocations
CorruptPid(t) ==
  /\ Quiet
  /\ pidFile.exists
  /\ pidFile.text # t
  /\ pidFile' = PidText(t)
  /\ UNCHANGED <<cfgFile, procs, nextPid, clock, inv, script>>
  /\ UNCHANGED gw

\* the config file is damaged between two invocations
CorruptCfg ==
  /\ Quiet
  /\ cfgFile.exists /\ cfgFile.json
  /\ cfgFile' = BadCfgFile
  /\ UNCHANGED <<pidFile, procs, nextPid, clock, inv, script>>
  /\ UNCHANGED gw

\* the user starts a CLI invocation in the lowest free slot; unless
\* invocations may overlap, every earlier one has ended, and the files it
\* starts with are the files its probe will read
Begin(i, cmd, detached, local, overlap) ==
  /\ Free(inv[i])
  /\ \A j \in Slots : j < i => ~Free(inv[j])
  /\ overlap \/ \A j \in Slots : Free(inv[j]) \/ Ended(inv[j])
  /\ cmd = "serve" \/ (~detached /\ ~local)
  /\ inv' = [inv EXCEPT ![i] =
                IF overlap THEN Fresh(cmd, detached, local)
                ELSE [Fresh(cmd, detached, local) EXCEPT
                        !.startPid = pidFile.exists,
                        !.startCfg = CfgKind(cfgFile),
                        !.afterPartial = script.partial]]
  /\ UNCHANGED <<pidFile, cfgFile, procs, nextPid, clock, script>>
  /\ UNCHANGED gw

InitSup ==
  /\ pidFile = NoPidFile
  /\ cfgFile = NoCfgFile
  /\ procs = [p \in Pids |-> "unborn"]
  /\ nextPid = 1
  /\ clock = 0
  /\ inv = [i \in Slots |-> Idle]
  /\ script = NoScript

\* the steps of status, kill and serve --detached
Step(i) ==
  \/ ProbeExistsPid(i) \/ ProbeReadPid(i) \/ ProbeKill0(i)
  \/ ProbeExistsCfg(i) \/ ProbeReadCfg(i)
  \/ StaleUnlinkPid(i) \/ StaleExistsCfg(i) \/ StaleUnlinkCfg(i)
  \/ KillTerm(i) \/ KillTimer(i) \/ KillForce(i)
  \/ CleanupExistsPid(i) \/ CleanupUnlinkPid(i)
  \/ CleanupExistsCfg(i) \/ CleanupUnlinkCfg(i)
  \/ ServeSpawn(i) \/ ServeWritePid(i) \/ ServeWriteCfg(i)

\* the further steps of serve --local and of a foreground serve
StepServe(i) ==
  \/ ServeListen(i) \/ OnChildExit(i) \/ ServerClosed(i)
  \/ \E sig \in {"SIGINT", "SIGTERM"} : OnSignal(i, sig)

Corrupt == CorruptCfg \/ \E t \in GarbageTexts : CorruptPid(t)

NextSup ==
  \/ \E i \in Slots, cmd \in {"serve", "status", "kill"}, d \in BOOLEAN, l \in BOOLEAN :
       Begin(i, cmd, d, l, FALSE)
  \/ \E i \in Slots : Step(i) \/ StepServe(i)
  \/ \E p \in Pids, code \in ChildCodes \cup {Null} : ProcExit(p, code)
  \/ Corrupt

\* overlapping invocations of status, kill and serve --detached (a foreground
\* serve touches the files in its probe only, as status does)
NextConc ==
  \/ \E i \in Slots, cmd \in {"serve", "status", "kill"} :
       Begin(i, cmd, cmd = "serve", FALSE, TRUE)
  \/ \E i \in Slots : Step(i)
  \/ \E p \in Pids : ProcExit(p, 0)
  \/ Corrupt


(***************************************************************************)
(* The gateway's routes (createRoutes).  A path is a sequence of           *)
(* one-character strings; a name or a message is a sequence of words.      *)
(***************************************************************************)
MaxSegs == 3         \* segments of a requested file path

RepoNames == {<<"demo">>, <<"already", "exists">>}
Undefined == <<"undefined">>     \* a field the request body does not have
NodeEnvs == {"production", "development", "test", "unset"}
RootA == <<"/", "r", "/", "a">>
RootB == <<"/", "r", "/", "a", "b">>
Roots == {RootA, RootB}
SegNames == {<<".", ".">>, <<"a", "b">>, <<"f">>, <<"n", " ", "m">>}

\* the files on the disk, with their content
Disk ==
  [p \in {RootA \o <<"/", "f">>, RootB \o <<"/", "f">>, <<"/", "r", "/", "f">>,
           RootA \o <<"/", "n", " ", "m">>} |->
     IF p = RootA \o <<"/", "f">> THEN "# Demo"
     ELSE IF p = RootB \o <<"/", "f">> THEN "# Other"
     ELSE IF p = <<"/", "r", "/", "f">> THEN "secret" ELSE "# Notes"]

RECURSIVE SplitRec(_, _)
SplitRec(s, cur) ==
  IF s = <<>> THEN <<cur>>
  ELSE IF Head(s) = "/" THEN <<cur>> \o SplitRec(Tail(s), <<>>)
  ELSE SplitRec(Tail(s), Append(cur, Head(s)))

\* s.split('/')
Split(s) == SplitRec(s, <<>>)

RECURSIVE JoinSegs(_)
JoinSegs(segs) ==
  IF segs = <<>> THEN <<>>
  ELSE IF Len(segs) = 1 THEN segs[1]
  ELSE segs[1] \o <<"/">> \o JoinSegs(Tail(segs))

\* path.posix normalizeString: '.' and empty segments are dropped, '..' takes
\* back the segment before it
RECURSIVE NormalizeSegs(_, _, _)
NormalizeSegs(segs, out, allowAboveRoot) ==
  IF segs = <<>> THEN out
  ELSE LET g == Head(segs) IN
       NormalizeSegs(Tail(segs),
         IF g = <<>> \/ g = <<".">> THEN out
         ELSE IF g = <<".", ".">>
              THEN IF out # <<>> /\ out[Len(out)] # <<".", ".">>
                   THEN SubSeq(out, 1, Len(out) - 1)
                   ELSE IF allowAboveRoot THEN Append(out, g) ELSE out
              ELSE Append(out, g),
         allowAboveRoot)

\* path.normalize
Normalize(p) ==
  IF p = <<>> THEN <<".">>
  ELSE LET isAbsolute == Head(p) = "/"
           trailing == p[Len(p)] = "/"
           body == JoinSegs(NormalizeSegs(Split(p), <<>>, ~isAbsolute))
       IN IF body = <<>>
          THEN (IF isAbsolute THEN <<"/">> ELSE IF trailing THEN <<".", "/">> ELSE <<".">>)
          ELSE (IF isAbsolute THEN <<"/">> ELSE <<>>) \o body
               \o (IF trailing THEN <<"/">> ELSE <<>>)

\* path.join(a, b)
Join(a, b) ==
  IF b = <<>> THEN Normalize(a)
  ELSE IF a = <<>> THEN Normalize(b)
  ELSE Normalize(a \o <<"/">> \o b)

\* s.startsWith(prefix)
StartsWith(s, prefix) ==
  Len(prefix) <= Len(s) /\ SubSeq(s, 1, Len(prefix)) = prefix

\* Faulty variant, for comparison: the containment check is left out
StartsWithAnything(s, prefix) == TRUE

\* existsSync: a file of the disk, or a directory above one
ExistsSync(p) ==
  LET q == IF Len(p) > 1 /\ p[Len(p)] = "/" THEN SubSeq(p, 1, Len(p) - 1) ELSE p IN
  \/ p \in DOMAIN Disk
  \/ \E f \in DOMAIN Disk : q = <<"/">> \/ StartsWith(f, q \o <<"/">>)

\* ProjectRegistryStore.getProject
GetProject(name) ==
  IF name \in DOMAIN registry /\ registry[name] # <<>>
  THEN [found |-> TRUE, name |-> name, path |-> registry[name]]
  ELSE [found |-> FALSE, name |-> name, path |-> <<>>]

\* transformToRepository: the repository object built from a registry entry.
\* The class of this repository copies name, remoteUrl, registeredAt and the
\* views, and no path; the manager re-exported from @a24z/core-library is
\* taken to carry the entry's path, which is what the raw route reads
TransformToRepository(entry) ==
  [found |-> TRUE, name |-> entry.name,
   path |-> IF manager = "core" THEN entry.path ELSE <<>>]

\* AlexandriaOutpostManager.getRepository
GetRepository(name) ==
  LET entry == GetProject(name) IN
  IF ~entry.found THEN entry ELSE TransformToRepository(entry)

Response(status, code, body) == [status |-> status, code |-> code, body |-> body]

\* two responses with the same status, code and body
SameResponse(a, b) == a.status = b.status /\ a.code = b.code /\ a.body = b.body

\* encodeURI, as a client applies it to the path of a URL: a space is sent
\* as %20
RECURSIVE Encode(_)
Encode(s) ==
  IF s = <<>> THEN <<>>
  ELSE (IF Head(s) = " " THEN <<"%", "2", "0">> ELSE <<Head(s)>>) \o Encode(Tail(s))

\* s.includes(sub)
Includes(s, sub) ==
  \E i \in 0..(Len(s) - Len(sub)) :
    i + Len(sub) <= Len(s) /\ SubSeq(s, i + 1, i + Len(sub)) = sub

\* new Error(message)
PlainError(message) == [api |-> FALSE, status |-> 500, code |-> "", message |-> message]

\* a failure of the registry's storage
IoError == PlainError(<<"EACCES", "permission", "denied">>)

\* errorHandler: the fallback for an exception passed to next()
ErrorHandler(err) ==
  IF err.api THEN Response(err.status, err.code, err.message)
  ELSE Response(500, "INTERNAL_ERROR",
                IF nodeEnv = "production" THEN <<"Internal", "server", "error">>
                ELSE err.message)

\* router.use('/raw/:repo'): reqPath is req.path, the URL after /raw/:repo
\* as it was sent (req.path is not percent-decoded)
RawRoute(repo, reqPath) ==
  LET filePath == SubSeq(reqPath, 2, Len(reqPath))
      repository == GetRepository(repo)
      repoPath == repository.path
      fullPath == Join(repoPath, filePath)
  IN IF ~repository.found THEN Response(404, "REPO_NOT_FOUND", "")
     ELSE IF repoPath = <<>> THEN Response(500, "NO_PATH", "")
     ELSE IF ~StartsWith(fullPath, repoPath) THEN Response(403, "FORBIDDEN", "")
     ELSE IF ~ExistsSync(fullPath) THEN Response(404, "FILE_NOT_FOUND", "")
     ELSE IF fullPath \in DOMAIN Disk THEN Response(200, "text/plain", Disk[fullPath])
     ELSE Response(0, "EISDIR", "")

\* router.get('/repos/:name')
RepoRoute(name, fault) ==
  IF fault = "io" THEN ErrorHandler(IoError)
  ELSE LET repo == GetRepository(name) IN
       IF ~repo.found
       THEN Response(404, "REPO_NOT_FOUND", <<"Repository">> \o name \o <<"not", "found">>)
       ELSE Response(200, "repository", repo)

\* Faulty variant, for comparison: the owner segment is looked up
RepoByOwnerUsesOwner(owner, name, fault) == RepoRoute(owner, fault)

\* router.get('/repos/:owner/:name')
RepoByOwnerRoute(owner, name, fault) ==
  IF fault = "io" THEN ErrorHandler(IoError)
  ELSE LET repo == GetRepository(name) IN
       IF ~repo.found
       THEN Response(404, "REPO_NOT_FOUND", <<"Repository">> \o name \o <<"not", "found">>)
       ELSE Response(200, "repository", repo)

\* ProjectRegistryStore.registerProject: a taken name is refused, anything
\* else is stored; the storage may fail
RegisterProject(name, path, fault) ==
  IF fault = "io" THEN [threw |-> TRUE, err |-> IoError, registry |-> registry]
  ELSE IF registry[name] # <<>>
  THEN [threw |-> TRUE,
        err |-> PlainError(<<"Project">> \o name \o <<"already", "exists">>),
        registry |-> registry]
  ELSE [threw |-> FALSE, err |-> PlainError(<<>>),
        registry |-> [registry EXCEPT ![name] = path]]

\* Faulty variant, for comparison: a taken name is overwritten
RegisterRepositoryUpsert(name, path, fault) ==
  [threw |-> FALSE, err |-> PlainError(<<>>),
   registry |-> [registry EXCEPT ![name] = path],
   repo |-> TransformToRepository([found |-> TRUE, name |-> name, path |-> path])]

\* AlexandriaOutpostManager.registerRepository.  With fault "lost" the entry
\* is gone again when it is read back (the registry is a file that other
\* processes write too)
RegisterRepository(name, path, fault) ==
  LET r == RegisterProject(name, path, fault)
      kept == IF fault = "lost" THEN registry ELSE r.registry
  IN IF r.threw THEN [threw |-> TRUE, err |-> r.err, registry |-> r.registry, repo |-> <<>>]
     ELSE IF kept[name] = <<>>
     THEN [threw |-> TRUE,
           err |-> PlainError(<<"Failed", "to", "register", "repository">> \o name),
           registry |-> kept, repo |-> <<>>]
     ELSE [threw |-> FALSE, err |-> r.err, registry |-> kept,
           repo |-> TransformToRepository([found |-> TRUE, name |-> name, path |-> kept[name]])]

\* !v for a field of the request body
Falsy(v) == v = Undefined \/ v = <<>>

\* router.post('/repos')
PostRepos(name, path, fault) ==
  IF Falsy(name) \/ Falsy(path)
  THEN [res |-> Response(400, "INVALID_REQUEST",
                         <<"Both", "name", "and", "path", "are", "required">>),
        registry |-> registry, called |-> FALSE]
  ELSE LET r == RegisterRepository(name, path, fault) IN
       IF ~r.threw
       THEN [res |-> Response(200, "success", r.repo), registry |-> r.registry, called |-> TRUE]
       ELSE IF Includes(r.err.message, <<"already", "exists">>)
       THEN [res |-> Response(409, "ALREADY_EXISTS", r.err.message),
             registry |-> r.registry, called |-> TRUE]
       ELSE [res |-> Response(400, "REGISTRATION_FAILED", r.err.message),
             registry |-> r.registry, called |-> TRUE]

\* the files a client asks for: up to MaxSegs segments
RECURSIVE SegSeqs(_)
SegSeqs(n) ==
  IF n = 0 THEN {<<>>}
  ELSE SegSeqs(n - 1) \cup {Append(q, g) : q \in SegSeqs(n - 1), g \in SegNames}

RelPaths == {JoinSegs(q) : q \in SegSeqs(MaxSegs)}

\* the request paths, as they are sent
ReqPaths == {<<"/">> \o Encode(rel) : rel \in RelPaths}

\* the location a requested path resolves to lies outside the root directory
Escapes(root, reqPath) ==
  LET rootSegs == NormalizeSegs(Split(root), <<>>, FALSE)
      segs == NormalizeSegs(Split(root \o reqPath), <<>>, FALSE)
  IN ~(Len(rootSegs) <= Len(segs) /\ SubSeq(segs, 1, Len(rootSegs)) = rootSegs)

NoRequest == [route |-> "none", repo |-> <<>>, owner |-> <<>>, path |-> <<>>,
              rel |-> <<>>, fault |-> "none", taken |-> FALSE]

\* a request to /raw/:repo/<rel>
GetRaw(repo, rel, fault) ==
  LET reqPath == <<"/">> \o Encode(rel) IN
  /\ req' = [NoRequest EXCEPT !.route = "raw", !.repo = repo, !.path = reqPath,
                              !.rel = rel, !.fault = fault]
  /\ res' = IF fault = "io" THEN ErrorHandler(IoError) ELSE RawRoute(repo, reqPath)
  /\ UNCHANGED <<manager, registry, nodeEnv>>
  /\ UNCHANGED <<sup, hook, hookLog>>

\* GET /repos/:name
GetRepo(name, fault) ==
  /\ req' = [NoRequest EXCEPT !.route = "repo", !.repo = name, !.fault = fault]
  /\ res' = RepoRoute(name, fault)
  /\ UNCHANGED <<manager, registry, nodeEnv>>
  /\ UNCHANGED <<sup, hook, hookLog>>

\* GET /repos/:owner/:name
GetRepoByOwner(owner, name, fault) ==
  /\ req' = [NoRequest EXCEPT !.route = "repoOwner", !.repo = name, !.owner = owner,
                              !.fault = fault]
  /\ res' = RepoByOwnerRoute(owner, name, fault)
  /\ UNCHANGED <<manager, registry, nodeEnv>>
  /\ UNCHANGED <<sup, hook, hookLog>>

\* POST /repos with the body {name, path}
Post(name, path, fault) ==
  LET r == PostRepos(name, path, fault) IN
  /\ req' = [NoRequest EXCEPT !.route = "register", !.repo = name, !.path = path,
                              !.fault = fault,
                              !.taken = (name \in RepoNames /\ registry[name] # <<>>)]
  /\ res' = r.res
  /\ registry' = r.registry
  /\ UNCHANGED <<manager, nodeEnv>>
  /\ UNCHANGED <<sup, hook, hookLog>>

(***************************************************************************)
(* The pre-commit hook (hooks --add, hooks --remove).  A file's content is  *)
(* the sequence of its lines as content.split('\n') gives them: the empty   *)
(* content is one empty line, a content that ends with a newline ends with  *)
(* an empty line.  A line is its indentation and its text.                  *)
(***************************************************************************)
MaxHookLines == 3    \* lines of the pre-commit file before the hook is added

Line(indent, text) == [indent |-> indent, text |-> text]
EmptyLine == Line(0, "")

\* ALEXANDRIA_HOOK_MARKER
AlexandriaHookMarker == "# Alexandria validation"

\* getAlexandriaHookContent(), without its final newline
AlexandriaBlock ==
  << Line(0, AlexandriaHookMarker),
     Line(0, "echo Running Alexandria validation..."),
     Line(0, "npx alexandria validate-all --errors-only || {"),
     Line(2, "echo Alexandria validation failed (errors found)"),
     Line(2, "echo Run 'alexandria validate-all' to see details"),
     Line(2, "exit 1"),
     Line(0, "}"),
     EmptyLine,
     Line(0, "echo Running Alexandria lint..."),
     Line(0, "npx alexandria lint --errors-only 2>/dev/null || {"),
     Line(2, "# Only fail if lint exits with non-zero code"),
     Line(2, "if [ $? -ne 0 ]; then"),
     Line(4, "echo Alexandria lint failed"),
     Line(4, "echo Run 'alexandria lint' to see details"),
     Line(4, "exit 1"),
     Line(2, "fi"),
     Line(0, "}") >>

\* getAlexandriaHookContent()
GetAlexandriaHookContent == AlexandriaBlock \o <<EmptyLine>>

\* the lines a pre-commit file holds before the hook is added
UserLines == {Line(0, "#!/bin/sh"), Line(0, "npm test"), Line(0, "npm run lint"), EmptyLine}

\* line.includes(ALEXANDRIA_HOOK_MARKER)
IncludesMarker(l) == l.text = AlexandriaHookMarker

\* line.includes('alexandria')
IncludesLower(l) ==
  l.text \in {"npx alexandria validate-all --errors-only || {",
              "echo Run 'alexandria validate-all' to see details",
              "npx alexandria lint --errors-only 2>/dev/null || {",
              "echo Run 'alexandria lint' to see details"}

\* line.includes('Alexandria')
IncludesUpper(l) ==
  l.text \in {AlexandriaHookMarker,
              "echo Running Alexandria validation...",
              "echo Alexandria validation failed (errors found)",
              "echo Running Alexandria lint...",
              "echo Alexandria lint failed"}

\* line.includes('exit 1')
IncludesExit1(l) == l.text = "exit 1"

\* line === '}'
IsBrace(l) == l.indent = 0 /\ l.text = "}"

\* line.trim() === ''
IsBlank(l) == l.text = ""

\* content.includes(ALEXANDRIA_HOOK_MARKER)
ContentIncludesMarker(ls) == \E k \in DOMAIN ls : IncludesMarker(ls[k])

\* content.trimEnd()
RECURSIVE TrimEnd(_)
TrimEnd(ls) ==
  IF Len(ls) > 1 /\ IsBlank(ls[Len(ls)]) THEN TrimEnd(SubSeq(ls, 1, Len(ls) - 1))
  ELSE IF IsBlank(ls[Len(ls)]) THEN <<EmptyLine>>
  ELSE ls

\* content.trimStart(): the indentation of the first line goes too
RECURSIVE TrimStart(_)
TrimStart(ls) ==
  IF Len(ls) > 1 /\ IsBlank(ls[1]) THEN TrimStart(Tail(ls))
  ELSE IF IsBlank(ls[1]) THEN <<EmptyLine>>
  ELSE <<Line(0, ls[1].text)>> \o Tail(ls)

\* content.trim()
Trim(ls) == TrimStart(TrimEnd(ls))

\* result.replace(/\n{3,}/g, '\n\n'): of empty lines in a row, one is kept
RECURSIVE CollapseBlank(_)
CollapseBlank(ls) ==
  IF Len(ls) < 2 THEN ls
  ELSE IF ls[1] = EmptyLine /\ ls[2] = EmptyLine THEN CollapseBlank(Tail(ls))
  ELSE <<ls[1]>> \o CollapseBlank(Tail(ls))

NoHookFile == [exists |-> FALSE, lines |-> <<>>]
HookFile(ls) == [exists |-> TRUE, lines |-> ls]

\* hasAlexandriaHook
HasAlexandriaHook(f) == f.exists /\ ContentIncludesMarker(f.lines)

\* addAlexandriaHook
AddAlexandriaHook(f) ==
  IF f.exists
  THEN IF ContentIncludesMarker(f.lines) THEN f
       ELSE IF Trim(f.lines) = <<Line(0, "npm test")>>
       THEN HookFile(GetAlexandriaHookContent)
       ELSE HookFile(TrimEnd(f.lines) \o <<EmptyLine>> \o GetAlexandriaHookContent)
  ELSE HookFile(GetAlexandriaHookContent)

\* lines.findIndex((line) => line.includes(ALEXANDRIA_HOOK_MARKER)), from 1
StartIndex(ls) == CHOOSE k \in DOMAIN ls :
  IncludesMarker(ls[k]) /\ \A j \in 1..(k - 1) : ~IncludesMarker(ls[j])

\* the test of the while loop on line i of a block whose marker is at start
InAlexandriaBlock(l, i, start) ==
  \/ IncludesLower(l) \/ IncludesUpper(l)
  \/ (IncludesExit1(l) /\ i > start /\ i < start + 10)
  \/ (IsBrace(l) /\ i > start /\ i < start + 10)
  \/ (IsBlank(l) /\ i = start + 1)
  \/ (IsBlank(l) /\ i < start + 10)

\* the while loop: the index of the last line taken for the block
RECURSIVE EndIndex(_, _, _, _)
EndIndex(ls, start, i, endIndex) ==
  IF i <= Len(ls) /\ InAlexandriaBlock(ls[i], i, start)
  THEN EndIndex(ls, start, i + 1, i)
  ELSE endIndex

\* removeAlexandriaHook
RemoveAlexandriaHook(f) ==
  IF ~f.exists \/ ~ContentIncludesMarker(f.lines) THEN f
  ELSE LET startIndex == StartIndex(f.lines)
           endIndex == EndIndex(f.lines, startIndex, startIndex + 1, Len(f.lines))
           spliced == SubSeq(f.lines, 1, startIndex - 1)
                        \o SubSeq(f.lines, endIndex + 1, Len(f.lines))
           result == IF spliced = <<>> THEN <<EmptyLine>>
                     ELSE Trim(CollapseBlank(spliced))
       IN IF result # <<EmptyLine>> THEN HookFile(result \o <<EmptyLine>>)
          ELSE NoHookFile

\* the contents of up to n lines
RECURSIVE HookContents(_)
HookContents(n) ==
  IF n = 1 THEN {<<l>> : l \in UserLines}
  ELSE HookContents(n - 1) \cup {Append(q, l) : q \in HookContents(n - 1), l \in UserLines}

\* the lines of a content that are not blank
RECURSIVE NonBlank(_)
NonBlank(ls) ==
  IF ls = <<>> THEN <<>>
  ELSE (IF IsBlank(ls[1]) THEN <<>> ELSE <<ls[1]>>) \o NonBlank(Tail(ls))

\* some line of the content is a line of the Alexandria block
HasBlockLine(f) ==
  f.exists /\ \E k \in DOMAIN f.lines, b \in DOMAIN AlexandriaBlock :
    ~IsBlank(f.lines[k]) /\ f.lines[k].text = AlexandriaBlock[b].text

\* hooks --add in a repository with husky installed
HooksAdd ==
  /\ hookLog.phase = "start"
  /\ hook' = IF HasAlexandriaHook(hook) THEN hook ELSE AddAlexandriaHook(hook)
  /\ hookLog' = [phase |-> "added", orig |-> hook]
  /\ UNCHANGED <<sup, manager, registry, nodeEnv, req, res>>

\* hooks --remove
HooksRemove ==
  /\ hookLog.phase = "added"
  /\ hook' = IF ~HasAlexandriaHook(hook) THEN hook ELSE RemoveAlexandriaHook(hook)
  /\ hookLog' = [hookLog EXCEPT !.phase = "removed"]
  /\ UNCHANGED <<sup, manager, registry, nodeEnv, req, res>>

\* the repository is taken as the user left it
HooksPrepare(f) ==
  /\ hookLog.phase \in {"start", "removed"}
  /\ hook' = f
  /\ hookLog' = [phase |-> "start", orig |-> NoHookFile]
  /\ UNCHANGED <<sup, manager, registry, nodeEnv, req, res>>

NextHooks ==
  \/ \E f \in {NoHookFile} \cup {HookFile(ls) : ls \in HookContents(MaxHookLines)} :
       HooksPrepare(f)
  \/ HooksAdd
  \/ HooksRemove

InitGw ==
  /\ manager \in {"local", "core"}
  /\ nodeEnv \in NodeEnvs
  /\ registry = [n \in RepoNames |-> <<>>]
  /\ req = NoRequest
  /\ res = Response(0, "", "")
  /\ hook = NoHookFile
  /\ hookLog = [phase |-> "start", orig |-> NoHookFile]

\* requests to the raw-file route of a gateway, and the registrations that
\* give it repositories
NextGw ==
  \/ \E n \in RepoNames, p \in Roots : Post(n, p, "none")
  \/ \E n \in RepoNames \cup {<<"nope">>}, rel \in RelPaths : GetRaw(n, rel, "none")

\* requests to the registry routes of a gateway, with the failures of the
\* registry's storage
NextApi ==
  \/ \E n \in RepoNames \cup {Undefined, <<>>}, p \in Roots \cup {Undefined, <<>>},
        fault \in {"none", "io", "lost"} : Post(n, p, fault)
  \/ \E n \in RepoNames \cup {<<"nope">>}, fault \in {"none", "io"} : GetRepo(n, fault)
  \/ \E o \in RepoNames \cup {<<"nope">>}, n \in RepoNames \cup {<<"nope">>},
        fault \in {"none", "io"} : GetRepoByOwner(o, n, fault)
  \/ \E n \in RepoNames, fault \in {"none", "io"} : GetRaw(n, <<"f">>, fault)

vars == <<pidFile, cfgFile, procs, nextPid, clock, inv, script,
          manager, registry, nodeEnv, req, res, hook, hookLog>>

\* nothing has run yet; the gateway is built with either manager
Init == InitSup /\ InitGw

\* nothing has run yet, and no gateway takes requests
InitCli == InitSup /\ InitGw /\ manager = "local" /\ nodeEnv = "unset"

\* the invocations run one after the other
Spec == InitCli /\ [][NextSup]_vars

\* the invocations overlap
SpecConc == InitCli /\ [][NextConc]_vars

\* a gateway in the default mode
InitRaw == InitSup /\ InitGw /\ nodeEnv = "unset"

\* the steps of a foreground serve when no server was launched in the
\* background
StepFg(i) ==
  \/ ProbeExistsPid(i) \/ ServeListen(i) \/ ServeSpawn(i)
  \/ OnChildExit(i) \/ ServerClosed(i)
  \/ \E sig \in {"SIGINT", "SIGTERM"} : OnSignal(i, sig)

NextFg ==
  \/ \E i \in Slots, l \in BOOLEAN : Begin(i, "serve", FALSE, l, FALSE)
  \/ \E i \in Slots : StepFg(i)
  \/ \E p \in Pids, code \in ChildCodes \cup {Null} : ProcExit(p, code)

\* foreground launches; the event loop runs every handler that is ready
\* (the 'exit' handler, the server's 'close' event); signals and the
\* child's end come when they come
SpecFg ==
  /\ InitCli /\ [][NextFg]_vars
  /\ \A i \in Slots : WF_vars(OnChildExit(i)) /\ WF_vars(ServerClosed(i))

\* requests to the raw-file route of a running gateway
SpecGw == InitRaw /\ [][NextGw]_vars

\* hooks --add and hooks --remove on the pre-commit file of a repository
SpecHooks == InitCli /\ [][NextHooks]_vars

\* requests to the registry routes of a running gateway
SpecApi == Init /\ [][NextApi]_vars

(***************************************************************************)
(* Properties of the supervisor.                                           *)
(***************************************************************************)

\* C1: after serve --detached, status, kill, status, each run to completion
\* before the next starts, the final status reports that no server is
\* running and neither the pid file nor the config file remains
C1_FinalStatusStopped ==
  script.pos = 4 => script.report = "stopped" /\ script.clean

\* the sequence was run, the server was launched and kill had to send SIGKILL
C1_Witness ==
  /\ script.pos = 4 /\ script.launched /\ script.term /\ script.forced
  /\ script.report = "stopped" /\ script.clean

\* the sequence was run and the server left on the graceful SIGTERM
C1_WitnessGraceful ==
  script.pos = 4 /\ script.launched /\ script.term /\ ~script.forced

\* C2: once the recorded process has died by itself, the status invocation
\* that finds it dead and the one after it both report Stopped, and both
\* files are gone when the first of them ends
C2_StaleSelfHeals ==
  script.heal >= 1 => script.healed

C2_Witness ==
  script.heal = 2 /\ script.healed

\* C5: serve that finds the recorded process alive and the config readable
\* exits with code 1 without a gateway, without a child and without touching
\* the files
C5_AlreadyRunning ==
  \A i \in Slots :
    (inv[i].cmd = "serve" /\ inv[i].probeOk /\ inv[i].hasCfg) =>
      /\ inv[i].pc = "done" /\ inv[i].code = 1 /\ inv[i].report = "already"
      /\ ~inv[i].apiServer.defined /\ inv[i].child = 0
      /\ inv[i].writes = 0 /\ inv[i].unlinks = 0

C5_Witness ==
  \E i \in Slots :
    /\ inv[i].cmd = "serve" /\ inv[i].local /\ inv[i].probeOk /\ inv[i].hasCfg
    /\ inv[i].pc = "done" /\ inv[i].code = 1

\* C6: a serve --detached that has written the descriptor, with or without
\* --local, has recorded its child's process id with {port, apiUrl,
\* startedAt} and has ended with exit code 0
C6_DetachedServeExits ==
  \A i \in Slots :
    (inv[i].cmd = "serve" /\ inv[i].detached /\ inv[i].report = "started") =>
      /\ inv[i].pc = "done" /\ inv[i].code = 0
      /\ inv[i].endPid = PidText(NumToString(inv[i].child))
      /\ inv[i].endCfg.json /\ inv[i].endCfg.port = DefaultPort
      /\ inv[i].endCfg.apiUrl = inv[i].apiUrl

\* a serve --detached without --local that has written the descriptor has
\* recorded its child and has ended with exit code 0
C6_WithoutLocal ==
  \A i \in Slots :
    (inv[i].cmd = "serve" /\ inv[i].detached /\ ~inv[i].local
       /\ inv[i].report = "started") =>
      /\ inv[i].pc = "done" /\ inv[i].code = 0
      /\ inv[i].endPid = PidText(NumToString(inv[i].child))
      /\ inv[i].endCfg.json /\ inv[i].endCfg.port = DefaultPort
      /\ inv[i].endCfg.apiUrl = inv[i].apiUrl

\* C4: the gateway's stop is requested at most once in a foreground launch
C4_StopAtMostOnce ==
  \A i \in Slots : inv[i].stops <= 1

\* C7: a foreground serve ends with the exit code its child ended with
C7_ExitCodePropagated ==
  \A i \in Slots :
    (inv[i].cmd = "serve" /\ ~inv[i].detached /\ inv[i].pc = "done"
       /\ inv[i].childExited /\ inv[i].childCode # Null) =>
      inv[i].code = inv[i].childCode

\* the exit code is propagated whenever stop was requested at most once
C7_PropagatedUnlessStoppedTwice ==
  \A i \in Slots :
    (inv[i].cmd = "serve" /\ ~inv[i].detached /\ inv[i].pc = "done"
       /\ inv[i].childExited /\ inv[i].childCode # Null /\ inv[i].stops <= 1) =>
      inv[i].code = inv[i].childCode

\* C8: kill run when no server was ever started exits with code 0, reports
\* that no server is running, sends no signal and creates or deletes no file
C8_KillNothingStarted ==
  \A i \in Slots :
    (inv[i].cmd = "kill" /\ nextPid = 1 /\ inv[i].pc = "done") =>
      /\ inv[i].code = 0 /\ ~inv[i].crashed /\ inv[i].report = "stopped"
      /\ inv[i].sent = {} /\ inv[i].writes = 0 /\ inv[i].unlinks = 0
      /\ ~pidFile.exists /\ ~cfgFile.exists

C8_Witness ==
  \E i \in Slots :
    inv[i].cmd = "kill" /\ nextPid = 1 /\ inv[i].pc = "done" /\ inv[i].report = "stopped"

\* C9: kill never raises and ends with exit code 0, and neither the pid file
\* nor the config file remains when it has ended
C9_KillAlwaysSucceeds ==
  \A i \in Slots :
    (inv[i].cmd = "kill" /\ inv[i].pc = "done") =>
      /\ inv[i].code = 0 /\ ~inv[i].crashed
      /\ ~inv[i].endPid.exists /\ ~inv[i].endCfg.exists

\* kill found the process alive, and it was gone when SIGTERM was sent
C9_Witness ==
  \E i \in Slots :
    /\ inv[i].cmd = "kill" /\ inv[i].pc = "done" /\ inv[i].probeOk
    /\ inv[i].report = "failed" /\ inv[i].unlinks = 2

\* kill had to send SIGKILL
C9_WitnessForced ==
  \E i \in Slots :
    inv[i].cmd = "kill" /\ inv[i].pc = "done" /\ "SIGKILL" \in inv[i].sent

\* C10: every status invocation ends with exit code 0, also when other
\* invocations act on the files at the same time
C10_StatusExitsZero ==
  \A i \in Slots :
    (inv[i].cmd = "status" /\ inv[i].pc = "done") => inv[i].code = 0

\* C13: a stop requested of a gateway whose stop has completed before is
\* not answered with a failure
C13_StopAfterStopSucceeds ==
  \A i \in Slots : \A k \in DOMAIN inv[i].apiServer.cbs :
    inv[i].apiServer.closed => ~inv[i].apiServer.cbs[k].err

\* a stop requested of a gateway that is still listening does not fail
C13_FirstStopSucceeds ==
  \A i \in Slots : \A k \in DOMAIN inv[i].apiServer.cbs :
    inv[i].apiServer.cbs[k].err => (inv[i].stops >= 2 /\ k >= 2) \/ inv[i].apiServer.closed

\* C14: a serve whose gateway does not start, whose executable is not found
\* or whose spawn gives no process id ends with exit code 1 and has written
\* neither file; when it is the gateway that failed, no child was spawned
C14_LaunchFailure ==
  \A i \in Slots :
    (inv[i].cmd = "serve" /\ inv[i].report \in {"gateway", "noexe", "nopid"}) =>
      /\ inv[i].pc = "done" /\ inv[i].code = 1 /\ inv[i].writes = 0
      /\ inv[i].child = 0
      /\ inv[i].endPid = NoPidFile /\ inv[i].endCfg = NoCfgFile

\* a detached launch with a gateway got no process id from spawn
C14_Witness ==
  \E i \in Slots :
    /\ inv[i].cmd = "serve" /\ inv[i].detached /\ inv[i].local
    /\ inv[i].report = "nopid" /\ inv[i].apiServer.handle /\ inv[i].pc = "done"

\* the gateway did not start
C14_WitnessGateway ==
  \E i \in Slots :
    inv[i].cmd = "serve" /\ inv[i].report = "gateway" /\ inv[i].pc = "done"

\* C18: kill sends SIGKILL only after SIGTERM, after the timer of KillWaitMs
\* and after a liveness probe made then has succeeded; a process found gone
\* by that probe is not sent SIGKILL, and the process that was sent SIGTERM
\* is not alive when kill ends
C18_Escalation ==
  \A i \in Slots :
    inv[i].cmd = "kill" =>
      /\ "SIGKILL" \in inv[i].sent =>
           /\ "SIGTERM" \in inv[i].sent
           /\ inv[i].timer = KillWaitMs /\ inv[i].reprobe = "alive"
      /\ inv[i].reprobe # "none" => "SIGTERM" \in inv[i].sent /\ inv[i].timer = KillWaitMs
      /\ inv[i].reprobe = "gone" => "SIGKILL" \notin inv[i].sent
      /\ (inv[i].pc = "done" /\ "SIGTERM" \in inv[i].sent) => ~Alive(inv[i].pid)

\* the process was still alive after the wait and was sent SIGKILL
C18_Witness ==
  \E i \in Slots :
    /\ inv[i].cmd = "kill" /\ inv[i].pc = "done" /\ inv[i].reprobe = "alive"
    /\ inv[i].sent = {"SIGTERM", "SIGKILL"}

\* the process exited during the wait and was not sent SIGKILL
C18_WitnessGone ==
  \E i \in Slots :
    /\ inv[i].cmd = "kill" /\ inv[i].pc = "done" /\ inv[i].reprobe = "gone"
    /\ inv[i].sent = {"SIGTERM"}

\* C19: in a foreground launch with a gateway, a signal is forwarded to the
\* child only when the gateway's stop has completed, and once the child is
\* spawned the parent ends only when the gateway's stop has completed
C19_StopAwaited ==
  \A i \in Slots :
    (inv[i].cmd = "serve" /\ ~inv[i].detached /\ inv[i].apiServer.defined
       /\ inv[i].child # 0) =>
      /\ inv[i].sent # {} => inv[i].apiServer.closed
      /\ inv[i].pc = "done" => inv[i].apiServer.closed

\* a signal was forwarded after the stop, and the parent ended on the
\* child's exit
C19_Witness ==
  \E i \in Slots :
    /\ inv[i].cmd = "serve" /\ ~inv[i].detached /\ inv[i].apiServer.defined
    /\ inv[i].sent # {} /\ inv[i].pc = "done" /\ inv[i].apiServer.closed

\* C20: status reports Running, serve refuses with already-running, and
\* kill sends a signal, only after the same invocation's process.kill(pid, 0)
\* on the recorded pid has succeeded
C20_LivenessChecked ==
  \A i \in Slots :
    (\/ inv[i].report \in {"running", "already"}
     \/ inv[i].running
     \/ (inv[i].cmd = "kill" /\ inv[i].sent # {})) =>
      inv[i].probeOk /\ inv[i].pid \in Pids

\* kill has sent SIGTERM to a process it had probed
C20_Witness ==
  \E i \in Slots :
    inv[i].cmd = "kill" /\ "SIGTERM" \in inv[i].sent /\ inv[i].probeOk

\* status has reported Running
C20_WitnessStatus ==
  \E i \in Slots :
    inv[i].cmd = "status" /\ inv[i].report = "running" /\ inv[i].probeOk

\* the invocation has got its answer from isOutpostRunning
ProbeDone(r) ==
  r.pc \notin {"idle", "p_exists", "p_read", "p_kill0", "p_cfgExists", "p_cfgRead",
               "c_unlinkPid", "c_cfgExists", "c_unlinkCfg"}

\* C21: a probe that finds the pid file and a readable config file, and whose
\* process.kill(pid, 0) succeeds, answers Running with the recorded pid and
\* deletes neither file
C21_LiveDescriptorRunning ==
  \A i \in Slots :
    (ProbeDone(inv[i]) /\ inv[i].startPid /\ inv[i].startCfg = "json"
       /\ inv[i].probeOk) =>
      /\ inv[i].running /\ inv[i].hasCfg /\ inv[i].pid \in Pids
      /\ inv[i].pc \in {"k_term", "k_wait", "k_force"} => inv[i].unlinks = 0
      /\ inv[i].cmd # "kill" =>
           /\ inv[i].unlinks = 0 /\ inv[i].pc = "done"
           /\ inv[i].endPid = PidText(NumToString(inv[i].pid))
           /\ inv[i].endCfg.exists /\ inv[i].endCfg.json
      /\ inv[i].cmd = "status" => inv[i].report = "running" /\ inv[i].code = 0

\* status found a live process and a readable config
C21_Witness ==
  \E i \in Slots :
    /\ inv[i].cmd = "status" /\ inv[i].pc = "done" /\ inv[i].probeOk
    /\ inv[i].startCfg = "json" /\ inv[i].report = "running" /\ inv[i].endPid.exists

\* C22: a probe that does not find both the pid file and a readable config
\* file does not answer Running
C22_BothArtifactsRequired ==
  \A i \in Slots :
    (ProbeDone(inv[i]) /\ ~(inv[i].startPid /\ inv[i].startCfg = "json")) =>
      ~inv[i].running

\* a probe that finds a config file that does not parse, or no pid file,
\* does not answer Running
C22_BadOrNoPidNotRunning ==
  \A i \in Slots :
    (ProbeDone(inv[i]) /\ (~inv[i].startPid \/ inv[i].startCfg = "bad")) =>
      ~inv[i].running

\* C23: the probe of the invocation that follows a serve which wrote the pid
\* file and failed on the config file answers Stopped and deletes the pid
\* file
C23_PartialWritePurged ==
  \A i \in Slots :
    (ProbeDone(inv[i]) /\ inv[i].afterPartial) =>
      ~inv[i].running /\ inv[i].unlinks >= 1

\* after such a serve the pid file is purged once the child it names is gone
C23_PurgedWhenChildGone ==
  \A i \in Slots :
    (ProbeDone(inv[i]) /\ inv[i].afterPartial /\ inv[i].startPid /\ ~inv[i].probeOk) =>
      ~inv[i].running /\ inv[i].unlinks >= 1

\* C24: a probe that finds the pid file and a config file that does not
\* parse answers Stopped and deletes both files; status then ends with code
\* 0 and no error
C24_MalformedConfigHeals ==
  \A i \in Slots :
    (ProbeDone(inv[i]) /\ inv[i].startPid /\ inv[i].startCfg = "bad") =>
      /\ ~inv[i].running /\ inv[i].unlinks = 2
      /\ inv[i].cmd = "status" =>
           /\ inv[i].pc = "done" /\ inv[i].code = 0 /\ ~inv[i].crashed
           /\ inv[i].report = "stopped"
           /\ ~inv[i].endPid.exists /\ ~inv[i].endCfg.exists

\* status found a live process and a config that does not parse
C24_Witness ==
  \E i \in Slots :
    /\ inv[i].cmd = "status" /\ inv[i].pc = "done" /\ inv[i].startCfg = "bad"
    /\ inv[i].probeOk /\ inv[i].report = "stopped" /\ inv[i].unlinks = 2

\* C25: no step deletes a pid file that records a live process, or a config
\* file written for a process that is alive
C25_DeletedOnlyWhenGone ==
  [][/\ (pidFile.exists /\ ~pidFile'.exists) => ~Alive(ParseInt(pidFile.text))
     /\ (cfgFile.exists /\ cfgFile.json /\ ~cfgFile'.exists) => ~Alive(cfgFile.by)]_vars

\* no step deletes the pid file of a live process while the config file
\* written with it is in place and readable
C25_IntactDescriptorKept ==
  [][(pidFile.exists /\ ~pidFile'.exists /\ cfgFile.exists /\ cfgFile.json
        /\ cfgFile.by = ParseInt(pidFile.text))
       => ~Alive(ParseInt(pidFile.text))]_vars

\* C26: a serve that has ended has written the pid file and the config file
\* once each if it launched in detached mode, and has written nothing if it
\* ran in the foreground, was refused or failed
C26_DescriptorWrittenOnce ==
  \A i \in Slots :
    (inv[i].cmd = "serve" /\ Ended(inv[i])) =>
      inv[i].writes = IF inv[i].detached /\ inv[i].report = "started" THEN 2 ELSE 0

\* the same, but for a serve whose write of the config file failed after
\* its write of the pid file
C26_UnlessConfigWriteFails ==
  \A i \in Slots :
    (inv[i].cmd = "serve" /\ Ended(inv[i]) /\ ~Partial(inv[i])) =>
      inv[i].writes = IF inv[i].detached /\ inv[i].report = "started" THEN 2 ELSE 0

\* C29: whenever the pid file and a readable config file both exist, the
\* config file was written by the serve invocation whose child the pid file
\* records
C29_SameLaunch ==
  (pidFile.exists /\ cfgFile.exists /\ cfgFile.json /\ ParseInt(pidFile.text) \in Pids) =>
    cfgFile.by = ParseInt(pidFile.text)

\* the same, for the files left when every invocation has ended and both
\* overlapping launches have written both files
C29_SameLaunchAtRest ==
  (Quiet /\ \A i \in Slots : inv[i].cmd = "serve" /\ inv[i].writes = 2) =>
    C29_SameLaunch

\* C27: in a foreground launch, a signal that has reached the parent is
\* eventually forwarded to the child unless the child has exited, and once
\* the child has exited the parent eventually ends
C27_ShutdownCompletes ==
  \A i \in Slots :
    /\ \A sig \in {"SIGINT", "SIGTERM"} :
         (inv[i].pc = "fg" /\ sig \in inv[i].handlers)
           ~> (sig \in inv[i].sent \/ inv[i].childExited \/ inv[i].pc = "p_exists")
    /\ (inv[i].pc = "fg" /\ inv[i].childExited) ~> (inv[i].pc # "fg")

\* once the child has exited the parent eventually ends, with or without a
\* gateway
C27_ParentEnds ==
  \A i \in Slots : (inv[i].pc = "fg" /\ inv[i].childExited) ~> (inv[i].pc # "fg")

\* without a gateway a signal that has reached the parent is forwarded
C27_ForwardedWithoutGateway ==
  \A i \in Slots : \A sig \in {"SIGINT", "SIGTERM"} :
    (inv[i].pc = "fg" /\ ~inv[i].local /\ sig \in inv[i].handlers)
      ~> (sig \in inv[i].sent \/ inv[i].childExited \/ inv[i].pc = "p_exists")

(***************************************************************************)
(* Properties of the gateway.                                              *)
(***************************************************************************)

\* C3: a request to the raw-file route of a registered repository whose path
\* resolves outside the repository's root is answered 403 FORBIDDEN
C3_TraversalForbidden ==
  (req.route = "raw" /\ req.fault = "none" /\ req.repo \in RepoNames
     /\ registry[req.repo] # <<>> /\ Escapes(registry[req.repo], req.path)) =>
    res.status = 403 /\ res.code = "FORBIDDEN"

\* with a manager whose repositories carry their path, an escaping request
\* is never answered with a file or with FILE_NOT_FOUND
C3_WithPathNeverServed ==
  (manager = "core" /\ req.route = "raw" /\ req.fault = "none"
     /\ req.repo \in RepoNames
     /\ registry[req.repo] # <<>> /\ Escapes(registry[req.repo], req.path)) =>
    res.status \notin {200, 404}

\* C11: a POST /repos for a free name succeeds and stores the entry; a POST
\* for a name that is taken is answered 409 ALREADY_EXISTS and leaves the
\* registry as the first call left it
C11_DuplicateRejected ==
  [][(req'.route = "register" /\ req'.fault = "none"
        /\ ~Falsy(req'.repo) /\ ~Falsy(req'.path)) =>
       IF registry[req'.repo] = <<>>
       THEN /\ res'.status = 200 /\ res'.code = "success"
            /\ registry' = [registry EXCEPT ![req'.repo] = req'.path]
       ELSE /\ res'.status = 409 /\ res'.code = "ALREADY_EXISTS"
            /\ registry' = registry]_vars

\* a second registration of a name, with another path, was refused
C11_Witness ==
  /\ req.route = "register" /\ req.fault = "none" /\ req.taken
  /\ res.status = 409 /\ res.code = "ALREADY_EXISTS"
  /\ registry[req.repo] # <<>> /\ registry[req.repo] # req.path

\* C12: a request to the raw-file route for a file that exists inside the
\* root of a registered repository is answered 200, text/plain, with the
\* file's content
C12_ExistingFileServed ==
  (req.route = "raw" /\ req.fault = "none" /\ req.repo \in RepoNames
     /\ registry[req.repo] # <<>>
     /\ ~Escapes(registry[req.repo], <<"/">> \o req.rel)
     /\ Join(registry[req.repo], req.rel) \in DOMAIN Disk) =>
    /\ res.status = 200 /\ res.code = "text/plain"
    /\ res.body = Disk[Join(registry[req.repo], req.rel)]

\* with a manager whose repositories carry their path, an existing file
\* whose name needs no percent-encoding is served
C12_PlainNameWithPath ==
  (manager = "core" /\ req.route = "raw" /\ req.fault = "none"
     /\ req.repo \in RepoNames /\ registry[req.repo] # <<>>
     /\ Encode(req.rel) = req.rel
     /\ ~Escapes(registry[req.repo], <<"/">> \o req.rel)
     /\ Join(registry[req.repo], req.rel) \in DOMAIN Disk) =>
    /\ res.status = 200 /\ res.code = "text/plain"
    /\ res.body = Disk[Join(registry[req.repo], req.rel)]

\* with a manager whose repositories carry their path, an existing file
\* inside the root is served
C12_WithPathServed ==
  (manager = "core" /\ req.route = "raw" /\ req.fault = "none"
     /\ req.repo \in RepoNames /\ registry[req.repo] # <<>>
     /\ ~Escapes(registry[req.repo], <<"/">> \o req.rel)
     /\ Join(registry[req.repo], req.rel) \in DOMAIN Disk) =>
    res.status = 200

\* C15: GET /repos/:owner/:name is answered as GET /repos/:name is for the
\* same name, whatever the owner segment
C15_OwnerIgnored ==
  req.route = "repoOwner" => SameResponse(res, RepoRoute(req.repo, req.fault))

\* a registered repository was fetched under an owner that names another one
C15_Witness ==
  /\ req.route = "repoOwner" /\ req.owner # req.repo /\ req.fault = "none"
  /\ res.status = 200 /\ res.body.name = req.repo
  /\ registry[req.repo] # <<>>

\* C16: an exception escaping a route handler is answered 500
\* INTERNAL_ERROR, and outside development mode the exception's message is
\* replaced by a generic one
C16_MessageOnlyInDevelopment ==
  (req.route \in {"raw", "repo", "repoOwner"} /\ req.fault = "io") =>
    /\ res.status = 500 /\ res.code = "INTERNAL_ERROR"
    /\ (nodeEnv # "development" => res.body = <<"Internal", "server", "error">>)

\* an escaping exception is answered 500 INTERNAL_ERROR, with the generic
\* message in production mode and with its own message in every other mode
C16_RedactedInProductionOnly ==
  (req.route \in {"raw", "repo", "repoOwner"} /\ req.fault = "io") =>
    /\ res.status = 500 /\ res.code = "INTERNAL_ERROR"
    /\ res.body = IF nodeEnv = "production" THEN <<"Internal", "server", "error">>
                  ELSE IoError.message

\* C17: POST /repos answers 400 INVALID_REQUEST to a missing or empty name
\* or path and leaves the registry alone; it answers 409 ALREADY_EXISTS to a
\* taken name and to nothing else; it answers 400 REGISTRATION_FAILED to
\* every other failure of the registry; otherwise it adds the entry
C17_PostClassified ==
  [][req'.route = "register" =>
       IF Falsy(req'.repo) \/ Falsy(req'.path)
       THEN /\ res'.status = 400 /\ res'.code = "INVALID_REQUEST"
            /\ registry' = registry
       ELSE IF registry[req'.repo] # <<>>
       THEN /\ (req'.fault # "io" => res'.status = 409 /\ res'.code = "ALREADY_EXISTS")
            /\ registry' = registry
       ELSE IF req'.fault # "none"
       THEN /\ res'.status = 400 /\ res'.code = "REGISTRATION_FAILED"
            /\ registry' = registry
       ELSE /\ res'.status = 200 /\ res'.code = "success"
            /\ registry' = [registry EXCEPT ![req'.repo] = req'.path]]_vars

\* the classification holds for every name that does not itself contain the
\* words the route looks for in the failure's message
C17_ClassifiedUnlessNameMatches ==
  [][(req'.route = "register" /\ ~Includes(req'.repo, <<"already", "exists">>)) =>
       IF Falsy(req'.repo) \/ Falsy(req'.path)
       THEN /\ res'.status = 400 /\ res'.code = "INVALID_REQUEST"
            /\ registry' = registry
       ELSE IF registry[req'.repo] # <<>>
       THEN /\ (req'.fault # "io" => res'.status = 409 /\ res'.code = "ALREADY_EXISTS")
            /\ registry' = registry
       ELSE IF req'.fault # "none"
       THEN /\ res'.status = 400 /\ res'.code = "REGISTRATION_FAILED"
            /\ registry' = registry
       ELSE /\ res'.status = 200 /\ res'.code = "success"
            /\ registry' = [registry EXCEPT ![req'.repo] = req'.path]]_vars

\* C28: the raw-file route answers 404 REPO_NOT_FOUND for an unknown
\* repository whatever the path, else 500 NO_PATH for a repository without
\* a root path, else 403 FORBIDDEN for a path outside the root, else 404
\* FILE_NOT_FOUND for a missing file, else it streams what is at the path
C28_FixedOrder ==
  (req.route = "raw" /\ req.fault = "none") =>
    LET repository == GetRepository(req.repo)
        filePath == SubSeq(req.path, 2, Len(req.path))
    IN IF ~repository.found THEN res.status = 404 /\ res.code = "REPO_NOT_FOUND"
       ELSE IF repository.path = <<>> THEN res.status = 500 /\ res.code = "NO_PATH"
       ELSE IF Escapes(repository.path, req.path)
       THEN res.status = 403 /\ res.code = "FORBIDDEN"
       ELSE IF ~ExistsSync(Join(repository.path, filePath))
       THEN res.status = 404 /\ res.code = "FILE_NOT_FOUND"
       ELSE res.code \in {"text/plain", "EISDIR"}

\* the order holds with the route's own containment test, a comparison of
\* the first characters of the two paths
C28_OrderWithPrefixTest ==
  (req.route = "raw" /\ req.fault = "none") =>
    LET repository == GetRepository(req.repo)
        filePath == SubSeq(req.path, 2, Len(req.path))
    IN IF ~repository.found THEN res.status = 404 /\ res.code = "REPO_NOT_FOUND"
       ELSE IF repository.path = <<>> THEN res.status = 500 /\ res.code = "NO_PATH"
       ELSE IF ~StartsWith(Join(repository.path, filePath), repository.path)
       THEN res.status = 403 /\ res.code = "FORBIDDEN"
       ELSE IF ~ExistsSync(Join(repository.path, filePath))
       THEN res.status = 404 /\ res.code = "FILE_NOT_FOUND"
       ELSE res.code \in {"text/plain", "EISDIR"}

\* an unknown repository is answered 404 REPO_NOT_FOUND whatever the path
C28_UnknownRepositoryFirst ==
  (req.route = "raw" /\ req.fault = "none" /\ ~GetRepository(req.repo).found) =>
    res.status = 404 /\ res.code = "REPO_NOT_FOUND"

(***************************************************************************)
(* Properties of the pre-commit hook.                                      *)
(***************************************************************************)

\* C30: after hooks --add and then hooks --remove, a pre-commit file that did
\* not exist is gone again, a file that existed has its lines back, and no
\* line of the Alexandria block is left
C30_RoundTrip ==
  hookLog.phase = "removed" =>
    /\ ~hookLog.orig.exists => ~hook.exists
    /\ hookLog.orig.exists =>
         hook.exists /\ NonBlank(hook.lines) = NonBlank(hookLog.orig.lines)
    /\ ~HasBlockLine(hook)

\* after hooks --add and then hooks --remove the marker line is gone, and
\* the lines of a file that existed, unless it was husky's placeholder, come
\* first in what is left
C30_MarkerGoneUserLinesFirst ==
  hookLog.phase = "removed" =>
    /\ ~HasAlexandriaHook(hook)
    /\ (hookLog.orig.exists /\ Trim(hookLog.orig.lines) # <<Line(0, "npm test")>>
          /\ NonBlank(hookLog.orig.lines) # <<>>) =>
         /\ hook.exists
         /\ Len(NonBlank(hook.lines)) >= Len(NonBlank(hookLog.orig.lines))
         /\ SubSeq(NonBlank(hook.lines), 1, Len(NonBlank(hookLog.orig.lines)))
              = NonBlank(hookLog.orig.lines)

\* what is left of the block after hooks --remove: its lines from the
\* comment inside the second command on
C30_Residue ==
  (hookLog.phase = "removed" /\ ~hookLog.orig.exists) =>
    /\ hook.exists
    /\ hook.lines = <<Line(0, AlexandriaBlock[11].text)>>
                      \o SubSeq(AlexandriaBlock, 12, 17) \o <<EmptyLine>>

====
